---- MODULE Spec2Model ----
(***************************************************************************)
(* The SQL editor of praneeth622/Sql-editor: the lexer's token contract,   *)
(* the recursive-descent parser (utils/parser.js) and the statement        *)
(* executor and expression evaluator of the SQLEditor component, run       *)
(* against the component's mockDatabase state.                             *)
(***************************************************************************)
EXTENDS Integers, Sequences, FiniteSets, TLC

(***************************************************************************)
(* Bounds                                                                  *)
(***************************************************************************)
\* Run is clicked at most MaxRuns times in a behaviour.
MaxRuns == 3

(***************************************************************************)
(* JavaScript values.  Every value has the same three fields so that any   *)
(* two values can be compared.                                             *)
(***************************************************************************)
Num(n) == [t |-> "number", n |-> n, s |-> ""]
Str(s) == [t |-> "string", n |-> 0, s |-> s]
Bool(b) == [t |-> "boolean", n |-> IF b THEN 1 ELSE 0, s |-> ""]
Undefined == [t |-> "undefined", n |-> 0, s |-> ""]
JsNull == [t |-> "null", n |-> 0, s |-> ""]
NaN == [t |-> "NaN", n |-> 0, s |-> ""]

\* String.prototype.toUpperCase on the texts the model uses; a text with no
\* lower-case letter is its own upper case.
UpperPairs ==
  {<<"select", "SELECT">>, <<"Select", "SELECT">>, <<"from", "FROM">>,
   <<"where", "WHERE">>, <<"users", "USERS">>, <<"orders", "ORDERS">>,
   <<"products", "PRODUCTS">>, <<"nosuch", "NOSUCH">>, <<"id", "ID">>,
   <<"name", "NAME">>, <<"email", "EMAIL">>, <<"age", "AGE">>,
   <<"item", "ITEM">>, <<"book", "BOOK">>, <<"pen", "PEN">>,
   <<"Alice", "ALICE">>, <<"Bob", "BOB">>, <<"Al", "AL">>,
   <<"Charlie", "CHARLIE">>, <<"show", "SHOW">>, <<"tables", "TABLES">>,
   <<"charlie@example.com", "CHARLIE@EXAMPLE.COM">>,
   <<"alice.new@example.com", "ALICE.NEW@EXAMPLE.COM">>,
   <<"constructor", "CONSTRUCTOR">>,
   <<"SELECT", "SELECT">>, <<"FROM", "FROM">>, <<"WHERE", "WHERE">>,
   <<"INSERT", "INSERT">>, <<"INTO", "INTO">>, <<"VALUES", "VALUES">>,
   <<"UPDATE", "UPDATE">>, <<"SET", "SET">>, <<"DELETE", "DELETE">>,
   <<"SHOW", "SHOW">>, <<"TABLES", "TABLES">>, <<"AND", "AND">>,
   <<"OR", "OR">>, <<"DROP", "DROP">>, <<"(", "(">>, <<")", ")">>,
   <<",", ",">>, <<";", ";">>, <<"=", "=">>, <<"<>", "<>">>, <<"<", "<">>,
   <<">", ">">>, <<"<=", "<=">>, <<">=", ">=">>, <<"+", "+">>, <<"-", "-">>,
   <<"*", "*">>, <<"/", "/">>, <<"1", "1">>, <<"2", "2">>, <<"3", "3">>}

\* Any other text, character by character.
UpperLetters ==
  {<<"a", "A">>, <<"b", "B">>, <<"c", "C">>, <<"d", "D">>, <<"e", "E">>,
   <<"f", "F">>, <<"g", "G">>, <<"h", "H">>, <<"i", "I">>, <<"j", "J">>,
   <<"k", "K">>, <<"l", "L">>, <<"m", "M">>, <<"n", "N">>, <<"o", "O">>,
   <<"p", "P">>, <<"q", "Q">>, <<"r", "R">>, <<"s", "S">>, <<"t", "T">>,
   <<"u", "U">>, <<"v", "V">>, <<"w", "W">>, <<"x", "X">>, <<"y", "Y">>,
   <<"z", "Z">>}

RECURSIVE upperOfCharacters(_)
upperOfCharacters(s) ==
  IF s = "" THEN ""
  ELSE (IF \E p \in UpperLetters : p[1] = SubSeq(s, 1, 1)
        THEN (CHOOSE p \in UpperLetters : p[1] = SubSeq(s, 1, 1))[2]
        ELSE SubSeq(s, 1, 1)) \o upperOfCharacters(SubSeq(s, 2, Len(s)))

toUpperCase(s) ==
  IF \E p \in UpperPairs : p[1] = s
  THEN (CHOOSE p \in UpperPairs : p[1] = s)[2]
  ELSE upperOfCharacters(s)

\* parseFloat on the numerals the lexer can produce (digits with at most one
\* decimal point); several numerals denote the same number.
NumeralTable ==
  [s \in {"0", "1", "2", "3", "2.0", "01"} |->
     CASE s = "0" -> 0
       [] s = "1" -> 1
       [] s = "2" -> 2
       [] s = "3" -> 3
       [] s = "2.0" -> 2
       [] s = "01" -> 1]

parseFloat(s) == IF s \in DOMAIN NumeralTable THEN Num(NumeralTable[s]) ELSE NaN

\* ToNumber of a string operand of a loose comparison: numeric text converts,
\* the empty string is 0, anything else is NaN.
ToNumber(v) ==
  CASE v.t = "number" -> v
    [] v.t = "boolean" -> Num(v.n)
    [] v.t = "string" -> IF v.s = "" THEN Num(0) ELSE parseFloat(v.s)
    [] OTHER -> NaN

\* Code-unit order of the strings that reach a relational operator.
StringOrder ==
  <<"", "1", "2", "3", "Al", "Alice", "B", "Bob", "Charlie",
    "alice.new@example.com", "alice@example.com", "bob@example.com", "book",
    "charlie@example.com", "pen">>

StringRank(s) == CHOOSE i \in 1..Len(StringOrder) : StringOrder[i] = s

\* left == right
LooseEquals(a, b) ==
  CASE a.t = b.t -> a = b
    [] a.t = "undefined" \/ b.t = "undefined" -> FALSE
    [] OTHER -> LET x == ToNumber(a)
                    y == ToNumber(b)
                IN  x.t = "number" /\ y.t = "number" /\ x.n = y.n

\* left < right
LessThan(a, b) ==
  IF a.t = "string" /\ b.t = "string"
  THEN StringRank(a.s) < StringRank(b.s)
  ELSE LET x == ToNumber(a)
           y == ToNumber(b)
       IN  x.t = "number" /\ y.t = "number" /\ x.n < y.n

\* left <= right (false, like every relation, when an operand is NaN)
LessOrEqual(a, b) ==
  IF a.t = "string" /\ b.t = "string"
  THEN StringRank(a.s) <= StringRank(b.s)
  ELSE LET x == ToNumber(a)
           y == ToNumber(b)
       IN  x.t = "number" /\ y.t = "number" /\ x.n <= y.n

\* The truthiness JavaScript gives a value in a condition.
Truthy(v) ==
  CASE v.t = "boolean" -> v.n = 1
    [] v.t = "number" -> v.n # 0
    [] v.t = "string" -> v.s # ""
    [] OTHER -> FALSE

(***************************************************************************)
(* Lexer: token types, keywords and the classification of a word.          *)
(***************************************************************************)
KEYWORDS ==
  {"SELECT", "FROM", "WHERE", "INSERT", "INTO", "VALUES", "UPDATE", "SET",
   "DELETE", "AND", "OR", "NOT", "NULL", "CREATE", "TABLE", "DROP", "ALTER",
   "INDEX", "PRIMARY", "KEY", "FOREIGN", "REFERENCES", "DEFAULT",
   "CONSTRAINT", "SHOW", "TABLES"}

OPERATORS == {"=", "<", ">", "<=", ">=", "<>", "+", "-", "*", "/", "%"}

\* A token's position in the text is carried along by the program and never
\* read by the parser or the executor; it is left out.
Token(type, value) == [type |-> type, value |-> value]

\* peek() past the end of the token array
NoToken == [type |-> "null", value |-> ""]

tokenizeIdentifier(word) ==
  IF toUpperCase(word) \in KEYWORDS
  THEN Token("KEYWORD", toUpperCase(word))
  ELSE Token("IDENTIFIER", word)

\* A query is held as its sequence of lexemes (the maximal runs the scanning
\* loop cuts the text into); analyze() turns each into one token.
W(s) == [k |-> "word", s |-> s]
N(s) == [k |-> "number", s |-> s]
S(s) == [k |-> "string", s |-> s]
O(s) == [k |-> "operator", s |-> s]
P(s) == [k |-> "punctuation", s |-> s]

analyze(input) ==
  [i \in 1..Len(input) |->
     CASE input[i].k = "word" -> tokenizeIdentifier(input[i].s)
       [] input[i].k = "number" -> Token("NUMBER", input[i].s)
       [] input[i].k = "string" -> Token("STRING", input[i].s)
       [] input[i].k = "operator" -> Token("OPERATOR", input[i].s)
       [] input[i].k = "punctuation" -> Token("PUNCTUATION", input[i].s)]

lexicalAnalysis(query) == analyze(query)

(***************************************************************************)
(* Parser (class SQLParser).  The parser object's state is the token array *)
(* and the position; every parse function takes both and returns the new   *)
(* position with its value, or the error it throws.  An error message is   *)
(* the sequence of its fragments; the empty sequence is "no error".        *)
(***************************************************************************)
NoError == <<>>
NoNode == [type |-> "null"]

Ok(position, val) == [ok |-> TRUE, pos |-> position, val |-> val, err |-> NoError]
Fail(position, err) == [ok |-> FALSE, pos |-> position, val |-> NoNode, err |-> err]

peek(tokens, position) ==
  IF position + 1 <= Len(tokens) THEN tokens[position + 1] ELSE NoToken

\* match: TRUE when the current token has the type (and, when a value is
\* given, the value); the caller then advances by one, as consume() does.
\* The value "" stands for the default null.
match(tokens, position, type, value) ==
  LET token == peek(tokens, position)
  IN  /\ token.type # "null"
      /\ token.type = type
      /\ (value = "" \/ toUpperCase(token.value) = toUpperCase(value))

afterMatch(tokens, position, type, value) ==
  IF match(tokens, position, type, value) THEN position + 1 ELSE position

expect(tokens, position, type, value) ==
  LET token == peek(tokens, position)
  IN  IF token.type = "null"
      THEN Fail(position, <<"Expected", type, value, "but got end of input">>)
      ELSE IF token.type # type
              \/ (value # "" /\ toUpperCase(token.value) # toUpperCase(value))
           THEN Fail(position,
                     <<"Expected", type, value, "but got", token.type, token.value>>)
           ELSE Ok(position + 1, token)

BinaryExpression(operator, left, right) ==
  [type |-> "BinaryExpression", operator |-> operator, left |-> left, right |-> right]

\* Sequencing of two parser steps: a throw of the first ends the method,
\* otherwise the rest runs with the first step's position and value.
Then(step, Rest(_)) == IF step.ok THEN Rest(step) ELSE step

RECURSIVE parseExpression(_, _)

parsePrimary(tokens, position) ==
  LET token == peek(tokens, position)
  IN  IF token.type = "null"
      THEN Fail(position, <<"Unexpected end of input">>)
      ELSE IF token.type = "IDENTIFIER"
      THEN Ok(position + 1, [type |-> "Identifier", value |-> token.value])
      ELSE IF token.type = "NUMBER" \/ token.type = "STRING"
      THEN Ok(position + 1,
              [type |-> "Literal", value |-> token.value, valueType |-> token.type])
      ELSE IF match(tokens, position, "PUNCTUATION", "(")
      THEN Then(parseExpression(tokens, position + 1), LAMBDA expression :
           Then(expect(tokens, expression.pos, "PUNCTUATION", ")"), LAMBDA close :
           Ok(close.pos, expression.val)))
      ELSE Fail(position, <<"Unexpected token", token.type, token.value,
                            "at position", ToString(position)>>)

RECURSIVE parseMultiplicativeLoop(_, _, _)
parseMultiplicativeLoop(tokens, position, left) ==
  IF match(tokens, position, "OPERATOR", "*") \/ match(tokens, position, "OPERATOR", "/")
  THEN Then(parsePrimary(tokens, position + 1), LAMBDA right :
       parseMultiplicativeLoop(tokens, right.pos,
         BinaryExpression(peek(tokens, position).value, left, right.val)))
  ELSE Ok(position, left)

parseMultiplicative(tokens, position) ==
  Then(parsePrimary(tokens, position), LAMBDA left :
  parseMultiplicativeLoop(tokens, left.pos, left.val))

\* parseAdditive grouping to the right: a - b + c as a - (b + c).
RECURSIVE parseAdditiveLoop_groupRight(_, _, _)
parseAdditiveLoop_groupRight(tokens, position, left) ==
  IF match(tokens, position, "OPERATOR", "+") \/ match(tokens, position, "OPERATOR", "-")
  THEN Then(parseMultiplicative(tokens, position + 1), LAMBDA right :
       Then(parseAdditiveLoop_groupRight(tokens, right.pos, right.val), LAMBDA rest :
       Ok(rest.pos, BinaryExpression(peek(tokens, position).value, left, rest.val))))
  ELSE Ok(position, left)

RECURSIVE parseAdditiveLoop(_, _, _)
parseAdditiveLoop(tokens, position, left) ==
  IF match(tokens, position, "OPERATOR", "+") \/ match(tokens, position, "OPERATOR", "-")
  THEN Then(parseMultiplicative(tokens, position + 1), LAMBDA right :
       parseAdditiveLoop(tokens, right.pos,
         BinaryExpression(peek(tokens, position).value, left, right.val)))
  ELSE Ok(position, left)

parseAdditive(tokens, position) ==
  Then(parseMultiplicative(tokens, position), LAMBDA left :
  parseAdditiveLoop(tokens, left.pos, left.val))

RECURSIVE parseRelationalLoop(_, _, _)
parseRelationalLoop(tokens, position, left) ==
  IF \/ match(tokens, position, "OPERATOR", "<")
     \/ match(tokens, position, "OPERATOR", ">")
     \/ match(tokens, position, "OPERATOR", "<=")
     \/ match(tokens, position, "OPERATOR", ">=")
  THEN Then(parseAdditive(tokens, position + 1), LAMBDA right :
       parseRelationalLoop(tokens, right.pos,
         BinaryExpression(peek(tokens, position).value, left, right.val)))
  ELSE Ok(position, left)

parseRelational(tokens, position) ==
  Then(parseAdditive(tokens, position), LAMBDA left :
  parseRelationalLoop(tokens, left.pos, left.val))

RECURSIVE parseEqualityLoop(_, _, _)
parseEqualityLoop(tokens, position, left) ==
  IF match(tokens, position, "OPERATOR", "=") \/ match(tokens, position, "OPERATOR", "<>")
  THEN Then(parseRelational(tokens, position + 1), LAMBDA right :
       parseEqualityLoop(tokens, right.pos,
         BinaryExpression(peek(tokens, position).value, left, right.val)))
  ELSE Ok(position, left)

parseEquality(tokens, position) ==
  Then(parseRelational(tokens, position), LAMBDA left :
  parseEqualityLoop(tokens, left.pos, left.val))

RECURSIVE parseLogicalAndLoop(_, _, _)
parseLogicalAndLoop(tokens, position, left) ==
  IF match(tokens, position, "KEYWORD", "AND")
  THEN Then(parseEquality(tokens, position + 1), LAMBDA right :
       parseLogicalAndLoop(tokens, right.pos, BinaryExpression("AND", left, right.val)))
  ELSE Ok(position, left)

parseLogicalAnd(tokens, position) ==
  Then(parseEquality(tokens, position), LAMBDA left :
  parseLogicalAndLoop(tokens, left.pos, left.val))

RECURSIVE parseLogicalOrLoop(_, _, _)
parseLogicalOrLoop(tokens, position, left) ==
  IF match(tokens, position, "KEYWORD", "OR")
  THEN Then(parseLogicalAnd(tokens, position + 1), LAMBDA right :
       parseLogicalOrLoop(tokens, right.pos, BinaryExpression("OR", left, right.val)))
  ELSE Ok(position, left)

parseLogicalOr(tokens, position) ==
  Then(parseLogicalAnd(tokens, position), LAMBDA left :
  parseLogicalOrLoop(tokens, left.pos, left.val))

parseExpression(tokens, position) == parseLogicalOr(tokens, position)

\* The optional WHERE clause shared by parseSelect, parseUpdate, parseDelete.
parseWhere(tokens, position) ==
  IF match(tokens, position, "KEYWORD", "WHERE")
  THEN parseExpression(tokens, position + 1)
  ELSE Ok(position, NoNode)

RECURSIVE parseColumnListLoop(_, _, _)
\* } while (this.match(PUNCTUATION, ','))
parseColumnListAgain(tokens, position, columns) ==
  IF match(tokens, position, "PUNCTUATION", ",")
  THEN parseColumnListLoop(tokens, position + 1, columns)
  ELSE Ok(position, columns)

parseColumnListLoop(tokens, position, columns) ==
  IF match(tokens, position, "OPERATOR", "*")
  THEN parseColumnListAgain(tokens, position + 1, Append(columns, "*"))
  ELSE Then(expect(tokens, position, "IDENTIFIER", ""), LAMBDA column :
       parseColumnListAgain(tokens, column.pos, Append(columns, column.val.value)))

parseColumnList(tokens, position) == parseColumnListLoop(tokens, position, <<>>)

parseSelect(tokens, position) ==
  Then(expect(tokens, position, "KEYWORD", "SELECT"), LAMBDA kw :
  Then(parseColumnList(tokens, kw.pos), LAMBDA columns :
  Then(expect(tokens, columns.pos, "KEYWORD", "FROM"), LAMBDA from :
  Then(expect(tokens, from.pos, "IDENTIFIER", ""), LAMBDA table :
  Then(parseWhere(tokens, table.pos), LAMBDA where :
  Ok(where.pos, [type |-> "SELECT", columns |-> columns.val,
                 table |-> table.val.value, where |-> where.val]))))))

RECURSIVE parseIdentifierListLoop(_, _, _)
parseIdentifierListLoop(tokens, position, identifiers) ==
  Then(expect(tokens, position, "IDENTIFIER", ""), LAMBDA identifier :
  IF match(tokens, identifier.pos, "PUNCTUATION", ",")
  THEN parseIdentifierListLoop(tokens, identifier.pos + 1,
                               Append(identifiers, identifier.val.value))
  ELSE Ok(identifier.pos, Append(identifiers, identifier.val.value)))

parseIdentifierList(tokens, position) == parseIdentifierListLoop(tokens, position, <<>>)

parseValue(tokens, position) ==
  LET token == peek(tokens, position)
  IN  IF token.type = "null"
      THEN Fail(position, <<"Unexpected end of input">>)
      ELSE IF token.type \in {"STRING", "NUMBER", "IDENTIFIER"}
      THEN Ok(position + 1, token)
      ELSE Fail(position, <<"Unexpected token", token.type, token.value,
                            "at position", ToString(position)>>)

\* the inner do-while of parseValuesList: the values of one tuple
RECURSIVE parseValuesLoop(_, _, _)
parseValuesLoop(tokens, position, values) ==
  Then(parseValue(tokens, position), LAMBDA value :
  IF match(tokens, value.pos, "PUNCTUATION", ",")
  THEN parseValuesLoop(tokens, value.pos + 1, Append(values, value.val))
  ELSE Ok(value.pos, Append(values, value.val)))

RECURSIVE parseValuesListLoop(_, _, _)
parseValuesListLoop(tokens, position, valuesList) ==
  Then(expect(tokens, position, "PUNCTUATION", "("), LAMBDA open :
  Then(parseValuesLoop(tokens, open.pos, <<>>), LAMBDA values :
  Then(expect(tokens, values.pos, "PUNCTUATION", ")"), LAMBDA close :
  IF match(tokens, close.pos, "PUNCTUATION", ",")
  THEN parseValuesListLoop(tokens, close.pos + 1, Append(valuesList, values.val))
  ELSE Ok(close.pos, Append(valuesList, values.val)))))

parseValuesList(tokens, position) == parseValuesListLoop(tokens, position, <<>>)

\* if (this.match(PUNCTUATION, '(')) { columns = ...; this.expect(')') }
parseInsertColumns(tokens, position) ==
  IF match(tokens, position, "PUNCTUATION", "(")
  THEN Then(parseIdentifierList(tokens, position + 1), LAMBDA ids :
       Then(expect(tokens, ids.pos, "PUNCTUATION", ")"), LAMBDA close :
       Ok(close.pos, ids.val)))
  ELSE Ok(position, <<>>)

parseInsert(tokens, position) ==
  Then(expect(tokens, position, "KEYWORD", "INSERT"), LAMBDA kw :
  Then(expect(tokens, kw.pos, "KEYWORD", "INTO"), LAMBDA into :
  Then(expect(tokens, into.pos, "IDENTIFIER", ""), LAMBDA table :
  Then(parseInsertColumns(tokens, table.pos), LAMBDA columns :
  Then(expect(tokens, columns.pos, "KEYWORD", "VALUES"), LAMBDA values :
  Then(parseValuesList(tokens, values.pos), LAMBDA valuesList :
  Ok(valuesList.pos, [type |-> "INSERT", table |-> table.val.value,
                      columns |-> columns.val, valuesList |-> valuesList.val])))))))

RECURSIVE parseAssignmentsLoop(_, _, _)
parseAssignmentsLoop(tokens, position, assignments) ==
  Then(expect(tokens, position, "IDENTIFIER", ""), LAMBDA column :
  Then(expect(tokens, column.pos, "OPERATOR", "="), LAMBDA eq :
  Then(parseValue(tokens, eq.pos), LAMBDA value :
  IF match(tokens, value.pos, "PUNCTUATION", ",")
  THEN parseAssignmentsLoop(tokens, value.pos + 1,
         Append(assignments, [column |-> column.val.value, value |-> value.val]))
  ELSE Ok(value.pos,
          Append(assignments, [column |-> column.val.value, value |-> value.val])))))

parseAssignments(tokens, position) == parseAssignmentsLoop(tokens, position, <<>>)

parseUpdate(tokens, position) ==
  Then(expect(tokens, position, "KEYWORD", "UPDATE"), LAMBDA kw :
  Then(expect(tokens, kw.pos, "IDENTIFIER", ""), LAMBDA table :
  Then(expect(tokens, table.pos, "KEYWORD", "SET"), LAMBDA set :
  Then(parseAssignments(tokens, set.pos), LAMBDA assignments :
  Then(parseWhere(tokens, assignments.pos), LAMBDA where :
  Ok(where.pos, [type |-> "UPDATE", table |-> table.val.value,
                 assignments |-> assignments.val, where |-> where.val]))))))

parseDelete(tokens, position) ==
  Then(expect(tokens, position, "KEYWORD", "DELETE"), LAMBDA kw :
  Then(expect(tokens, kw.pos, "KEYWORD", "FROM"), LAMBDA from :
  Then(expect(tokens, from.pos, "IDENTIFIER", ""), LAMBDA table :
  Then(parseWhere(tokens, table.pos), LAMBDA where :
  Ok(where.pos, [type |-> "DELETE", table |-> table.val.value,
                 where |-> where.val])))))

parseShow(tokens, position) ==
  Then(expect(tokens, position, "KEYWORD", "SHOW"), LAMBDA kw :
  IF match(tokens, kw.pos, "KEYWORD", "TABLES")
  THEN Ok(afterMatch(tokens, kw.pos + 1, "PUNCTUATION", ";"), [type |-> "SHOW_TABLES"])
  ELSE IF peek(tokens, kw.pos).type = "null"
       THEN Fail(kw.pos, <<"TypeError", "Cannot read properties of null",
                           "reading 'value'">>)
       ELSE Fail(kw.pos, <<"Expected TABLES after SHOW, but got",
                           peek(tokens, kw.pos).value>>))

parse(tokens) ==
  LET token == peek(tokens, 0)
  IN  IF token.type = "null" THEN Fail(0, <<"Empty query">>)
      ELSE CASE toUpperCase(token.value) = "SELECT" -> parseSelect(tokens, 0)
             [] toUpperCase(token.value) = "INSERT" -> parseInsert(tokens, 0)
             [] toUpperCase(token.value) = "UPDATE" -> parseUpdate(tokens, 0)
             [] toUpperCase(token.value) = "DELETE" -> parseDelete(tokens, 0)
             [] toUpperCase(token.value) = "SHOW" -> parseShow(tokens, 0)
             [] OTHER -> Fail(0, <<"Unsupported command:", token.value>>)

parseSQL(tokens) == parse(tokens)

(***************************************************************************)
(* Rows.  A row is a JavaScript object: its own properties in insertion    *)
(* order, each key once.                                                   *)
(***************************************************************************)
Prop(k, v) == [k |-> k, v |-> v]

ObjectKeys(row) == [i \in 1..Len(row) |-> row[i].k]

hasOwnProperty(row, col) == \E i \in 1..Len(row) : row[i].k = col

\* row[col]
GetProp(row, col) ==
  IF hasOwnProperty(row, col)
  THEN row[CHOOSE i \in 1..Len(row) : row[i].k = col].v
  ELSE Undefined

\* row[col] = v
SetProp(row, col, v) ==
  IF hasOwnProperty(row, col)
  THEN [i \in 1..Len(row) |-> IF row[i].k = col THEN Prop(col, v) ELSE row[i]]
  ELSE Append(row, Prop(col, v))

(***************************************************************************)
(* Expression evaluator of the SQLEditor component.  A call returns its    *)
(* value or the error it throws.                                           *)
(***************************************************************************)
Returns(v) == [ok |-> TRUE, val |-> v, err |-> NoError]
Throws(err) == [ok |-> FALSE, val |-> Undefined, err |-> err]

\* convertValue with the NUMBER case lost: the numeral is kept as text.
convertValue_textNumber(token) ==
  LET kind == IF "valueType" \in DOMAIN token THEN token.valueType ELSE token.type
  IN  CASE kind \in {"NUMBER", "STRING", "IDENTIFIER"} -> Returns(Str(token.value))
        [] OTHER -> Throws(<<"Unsupported token type:", token.type>>)

\* parseValue of the component (the parser has a method of the same name):
\* converts a value token or a Literal node.
convertValue(token) ==
  LET kind == IF "valueType" \in DOMAIN token THEN token.valueType ELSE token.type
  IN  CASE kind = "NUMBER" -> Returns(parseFloat(token.value))
        [] kind = "STRING" -> Returns(Str(token.value))
        [] kind = "IDENTIFIER" -> Returns(Str(token.value))
        [] OTHER -> Throws(<<"Unsupported token type:", token.type>>)

getValue(row, operand) ==
  CASE operand.type = "Literal" -> convertValue(operand)
    [] operand.type = "Identifier" -> Returns(GetProp(row, operand.value))
    [] OTHER -> Throws(<<"Unsupported operand type:", operand.type>>)

RECURSIVE evaluateExpression(_, _)
evaluateExpression(row, expression) ==
  CASE expression.type = "BinaryExpression" ->
         LET left == getValue(row, expression.left)
             right == getValue(row, expression.right)
             operator == expression.operator
         IN  IF ~left.ok THEN left
             ELSE IF ~right.ok THEN right
             ELSE CASE operator = "=" -> Returns(Bool(LooseEquals(left.val, right.val)))
                    [] operator = "<>" -> Returns(Bool(~LooseEquals(left.val, right.val)))
                    [] operator = ">" -> Returns(Bool(LessThan(right.val, left.val)))
                    [] operator = "<" -> Returns(Bool(LessThan(left.val, right.val)))
                    [] operator = ">=" -> Returns(Bool(LessOrEqual(right.val, left.val)))
                    [] operator = "<=" -> Returns(Bool(LessOrEqual(left.val, right.val)))
                    [] operator = "AND" ->
                         LET l == evaluateExpression(row, expression.left)
                         IN  IF ~l.ok \/ ~Truthy(l.val) THEN l
                             ELSE evaluateExpression(row, expression.right)
                    [] operator = "OR" ->
                         LET l == evaluateExpression(row, expression.left)
                         IN  IF ~l.ok \/ Truthy(l.val) THEN l
                             ELSE evaluateExpression(row, expression.right)
                    [] OTHER -> Throws(<<"Unsupported operator in WHERE clause:",
                                        operator>>)
    [] expression.type = "Literal" -> convertValue(expression)
    [] expression.type = "Identifier" -> Returns(GetProp(row, expression.value))
    [] OTHER -> Throws(<<"Unsupported expression type:", expression.type>>)

(***************************************************************************)
(* Statement executor.  Each execute function returns the result it        *)
(* returns or the error it throws, together with the database as the call  *)
(* leaves it: the table handed to setDB, and the rows it assigned to in    *)
(* place.                                                                  *)
(***************************************************************************)
\* crash: the updater handed to setDB throws when React renders.
Done(result, db) ==
  [ok |-> TRUE, result |-> result, err |-> NoError, db |-> db, crash |-> FALSE]
Raised(err, db) ==
  [ok |-> FALSE, result |-> NoNode, err |-> err, db |-> db, crash |-> FALSE]

\* db is an object literal: db[tableName] of a name that is no table finds
\* what Object.prototype has under that name (a function), which passes the
\* test !tableData.  The names a lexer identifier can spell:
ObjectPrototypeKeys ==
  {"constructor", "toString", "valueOf", "hasOwnProperty", "isPrototypeOf",
   "propertyIsEnumerable", "toLocaleString"}

\* if (!tableData) throw ...
tableMissing(db, tableName) ==
  tableName \notin DOMAIN db /\ tableName \notin ObjectPrototypeKeys

\* tableData is an array of the database, not an inherited function
isTable(db, tableName) == tableName \in DOMAIN db

NotAFunction(what) == <<"TypeError", what, "is not a function">>

\* The updater that forgets ...prevDB.
setTable_withoutSpread(prevDB, tableName, tableData) ==
  [t \in {tableName} |-> tableData]

\* setDB((prevDB) => ({...prevDB, [tableName]: tableData}))
setTable(prevDB, tableName, tableData) ==
  [t \in DOMAIN prevDB \cup {tableName} |->
     IF t = tableName THEN tableData ELSE prevDB[t]]

RowSet(columns, rows) == [kind |-> "rows", columns |-> columns, rows |-> rows]
Message(verb, count, table) ==
  [kind |-> "message", verb |-> verb, count |-> count, table |-> table]

TableNotFound(tableName) == <<"Table", tableName, "not found">>

\* rows.filter((row) => evaluateExpression(row, ast.where)), row by row; the
\* first throw ends the scan.
RECURSIVE selectFilter(_, _, _, _)
selectFilter(tableData, where, i, kept) ==
  IF i > Len(tableData) THEN [ok |-> TRUE, rows |-> kept, err |-> NoError]
  ELSE LET keep == evaluateExpression(tableData[i], where)
       IN  IF ~keep.ok THEN [ok |-> FALSE, rows |-> kept, err |-> keep.err]
           ELSE selectFilter(tableData, where, i + 1,
                             IF Truthy(keep.val) THEN Append(kept, tableData[i])
                                                 ELSE kept)

includes(seq, x) == \E i \in 1..Len(seq) : seq[i] = x

\* executeSelect taking the * columns from the first row that passed the
\* filter instead of the table's first row.
executeSelect_keysOfFiltered(ast, db) ==
  IF tableMissing(db, ast.table) THEN Raised(TableNotFound(ast.table), db)
  ELSE IF ~isTable(db, ast.table)
  THEN Raised(IF ast.where.type # "null" THEN NotAFunction("rows.filter")
              ELSE IF includes(ast.columns, "*")
              THEN <<"TypeError", "Cannot convert undefined or null to object">>
              ELSE NotAFunction("rows.map"), db)
  ELSE
  LET tableData == db[ast.table]
      filtered == IF ast.where.type # "null"
                  THEN selectFilter(tableData, ast.where, 1, <<>>)
                  ELSE [ok |-> TRUE, rows |-> tableData, err |-> NoError]
  IN  IF ~filtered.ok THEN Raised(filtered.err, db)
      ELSE IF includes(ast.columns, "*") /\ Len(filtered.rows) = 0
      THEN Raised(<<"TypeError", "Cannot convert undefined or null to object">>, db)
      ELSE LET columns == IF includes(ast.columns, "*")
                          THEN ObjectKeys(filtered.rows[1]) ELSE ast.columns
               resultRows ==
                 [r \in 1..Len(filtered.rows) |->
                    [c \in 1..Len(columns) |->
                       IF hasOwnProperty(filtered.rows[r], columns[c])
                       THEN GetProp(filtered.rows[r], columns[c]) ELSE JsNull]]
           IN  Done(RowSet(columns, resultRows), db)

executeSelect(ast, db) ==
  IF tableMissing(db, ast.table) THEN Raised(TableNotFound(ast.table), db)
  ELSE IF ~isTable(db, ast.table)
  THEN Raised(IF ast.where.type # "null" THEN NotAFunction("rows.filter")
              ELSE IF includes(ast.columns, "*")
              THEN <<"TypeError", "Cannot convert undefined or null to object">>
              ELSE NotAFunction("rows.map"), db)
  ELSE
  LET tableData == db[ast.table]
      filtered == IF ast.where.type # "null"
                  THEN selectFilter(tableData, ast.where, 1, <<>>)
                  ELSE [ok |-> TRUE, rows |-> tableData, err |-> NoError]
  IN  IF ~filtered.ok THEN Raised(filtered.err, db)
      ELSE IF includes(ast.columns, "*") /\ Len(tableData) = 0
      THEN Raised(<<"TypeError", "Cannot convert undefined or null to object">>, db)
      ELSE LET columns == IF includes(ast.columns, "*")
                          THEN ObjectKeys(tableData[1]) ELSE ast.columns
               resultRows ==
                 [r \in 1..Len(filtered.rows) |->
                    [c \in 1..Len(columns) |->
                       IF hasOwnProperty(filtered.rows[r], columns[c])
                       THEN GetProp(filtered.rows[r], columns[c]) ELSE JsNull]]
           IN  Done(RowSet(columns, resultRows), db)

\* ast.columns.forEach((col, index) => record[col] = parseValue(values[index]))
RECURSIVE buildRecord(_, _, _, _)
buildRecord(columns, values, index, record) ==
  IF index > Len(columns) THEN [ok |-> TRUE, row |-> record, err |-> NoError]
  ELSE LET v == convertValue(values[index])
       IN  IF ~v.ok THEN [ok |-> FALSE, row |-> record, err |-> v.err]
           ELSE buildRecord(columns, values, index + 1,
                            SetProp(record, columns[index], v.val))

\* newRecords rejecting only a tuple that is too short.
RECURSIVE newRecords_tooShortOnly(_, _, _, _)
newRecords_tooShortOnly(columns, valuesList, i, records) ==
  IF i > Len(valuesList) THEN [ok |-> TRUE, rows |-> records, err |-> NoError]
  ELSE IF Len(columns) > Len(valuesList[i])
  THEN [ok |-> FALSE, rows |-> records,
        err |-> <<"Column count does not match value count">>]
  ELSE LET record == buildRecord(columns, valuesList[i], 1, <<>>)
       IN  IF ~record.ok THEN [ok |-> FALSE, rows |-> records, err |-> record.err]
           ELSE newRecords_tooShortOnly(columns, valuesList, i + 1,
                                        Append(records, record.row))

\* ast.valuesList.map(...): one record per tuple, the first throw ends it.
RECURSIVE newRecords(_, _, _, _)
newRecords(columns, valuesList, i, records) ==
  IF i > Len(valuesList) THEN [ok |-> TRUE, rows |-> records, err |-> NoError]
  ELSE IF Len(columns) # Len(valuesList[i])
  THEN [ok |-> FALSE, rows |-> records,
        err |-> <<"Column count does not match value count">>]
  ELSE LET record == buildRecord(columns, valuesList[i], 1, <<>>)
       IN  IF ~record.ok THEN [ok |-> FALSE, rows |-> records, err |-> record.err]
           ELSE newRecords(columns, valuesList, i + 1, Append(records, record.row))

\* executeInsert appending each record as it is built, so that the records
\* of the tuples before a bad one are in the table when it throws.
executeInsert_appendAsBuilt(ast, db) ==
  IF ~isTable(db, ast.table) THEN Raised(TableNotFound(ast.table), db)
  ELSE LET records == newRecords(ast.columns, ast.valuesList, 1, <<>>)
           after == [db EXCEPT ![ast.table] = @ \o records.rows]
       IN  IF ~records.ok THEN Raised(records.err, after)
           ELSE Done(Message("Inserted", Len(ast.valuesList), ast.table), after)

executeInsert(ast, db) ==
  IF tableMissing(db, ast.table) THEN Raised(TableNotFound(ast.table), db)
  ELSE LET records == newRecords(ast.columns, ast.valuesList, 1, <<>>)
       IN  IF ~records.ok THEN Raised(records.err, db)
           ELSE IF ~isTable(db, ast.table)
           \* [...prevDB[tableName], ...newRecords] spreads a function
           THEN [Done(Message("Inserted", Len(ast.valuesList), ast.table), db)
                   EXCEPT !.crash = TRUE]
           ELSE Done(Message("Inserted", Len(ast.valuesList), ast.table),
                     setTable(db, ast.table, db[ast.table] \o records.rows))

\* applyAssignments applying the first assignment only.
applyAssignments_firstOnly(row, assignments, i) ==
  LET v == convertValue(assignments[1].value)
  IN  IF ~v.ok THEN [ok |-> FALSE, row |-> row, err |-> v.err]
      ELSE [ok |-> TRUE, row |-> SetProp(row, assignments[1].column, v.val),
            err |-> NoError]

\* ast.assignments.forEach((assign) => row[assign.column] = parseValue(...)):
\* the assignments made before a throw stay in the row.
RECURSIVE applyAssignments(_, _, _)
applyAssignments(row, assignments, i) ==
  IF i > Len(assignments) THEN [ok |-> TRUE, row |-> row, err |-> NoError]
  ELSE LET v == convertValue(assignments[i].value)
       IN  IF ~v.ok THEN [ok |-> FALSE, row |-> row, err |-> v.err]
           ELSE applyAssignments(SetProp(row, assignments[i].column, v.val),
                                 assignments, i + 1)

\* tableData.map(...) of executeUpdate.  The rows are the objects of the
\* state, assigned to in place: when row i throws, rows 1..i-1 keep what was
\* assigned to them.
RECURSIVE updateRows(_, _, _, _)
updateRows(tableData, ast, i, rowsAffected) ==
  IF i > Len(tableData)
  THEN [ok |-> TRUE, rows |-> tableData, err |-> NoError, rowsAffected |-> rowsAffected]
  ELSE LET hit == IF ast.where.type = "null" THEN Returns(Bool(TRUE))
                  ELSE evaluateExpression(tableData[i], ast.where)
       IN  IF ~hit.ok
           THEN [ok |-> FALSE, rows |-> tableData, err |-> hit.err,
                 rowsAffected |-> rowsAffected]
           ELSE IF ~Truthy(hit.val)
           THEN updateRows(tableData, ast, i + 1, rowsAffected)
           ELSE LET row == applyAssignments(tableData[i], ast.assignments, 1)
                    data == [tableData EXCEPT ![i] = row.row]
                IN  IF ~row.ok
                    THEN [ok |-> FALSE, rows |-> data, err |-> row.err,
                          rowsAffected |-> rowsAffected]
                    ELSE updateRows(data, ast, i + 1, rowsAffected + 1)

executeUpdate(ast, db) ==
  IF tableMissing(db, ast.table) THEN Raised(TableNotFound(ast.table), db)
  ELSE IF ~isTable(db, ast.table) THEN Raised(NotAFunction("tableData.map"), db)
  ELSE LET updated == updateRows(db[ast.table], ast, 1, 0)
           after == [db EXCEPT ![ast.table] = updated.rows]
       IN  IF ~updated.ok THEN Raised(updated.err, after)
           ELSE Done(Message("Updated", updated.rowsAffected, ast.table),
                     setTable(after, ast.table, updated.rows))

\* deleteKeeps keeping every row when there is no WHERE.
deleteKeeps_keepWithoutWhere(row, where) ==
  IF where.type # "null"
  THEN LET hit == evaluateExpression(row, where)
       IN  IF ~hit.ok THEN hit ELSE Returns(Bool(~Truthy(hit.val)))
  ELSE Returns(Bool(TRUE))

\* deleteKeeps without the negation: the matching rows are the ones kept.
deleteKeeps_keepMatching(row, where) ==
  IF where.type # "null"
  THEN LET hit == evaluateExpression(row, where)
       IN  IF ~hit.ok THEN hit ELSE Returns(Bool(Truthy(hit.val)))
  ELSE Returns(Bool(FALSE))

\* The callback of tableData.filter in executeDelete: TRUE keeps the row.
deleteKeeps(row, where) ==
  IF where.type # "null"
  THEN LET hit == evaluateExpression(row, where)
       IN  IF ~hit.ok THEN hit ELSE Returns(Bool(~Truthy(hit.val)))
  ELSE Returns(Bool(FALSE))

RECURSIVE deleteFilter(_, _, _, _)
deleteFilter(tableData, where, i, kept) ==
  IF i > Len(tableData) THEN [ok |-> TRUE, rows |-> kept, err |-> NoError]
  ELSE LET keep == deleteKeeps(tableData[i], where)
       IN  IF ~keep.ok THEN [ok |-> FALSE, rows |-> kept, err |-> keep.err]
           ELSE deleteFilter(tableData, where, i + 1,
                             IF Truthy(keep.val) THEN Append(kept, tableData[i])
                                                 ELSE kept)

executeDelete(ast, db) ==
  IF tableMissing(db, ast.table) THEN Raised(TableNotFound(ast.table), db)
  ELSE IF ~isTable(db, ast.table) THEN Raised(NotAFunction("tableData.filter"), db)
  ELSE LET tableData == db[ast.table]
           initialLength == Len(tableData)
           updatedTableData == deleteFilter(tableData, ast.where, 1, <<>>)
       IN  IF ~updatedTableData.ok THEN Raised(updatedTableData.err, db)
           ELSE Done(Message("Deleted", initialLength - Len(updatedTableData.rows),
                             ast.table),
                     setTable(db, ast.table, updatedTableData.rows))

\* Object.keys(db) of the table names, in the order the state lists them.
TableOrder == <<"users", "orders", "products">>

executeAST(ast, db) ==
  CASE ast.type = "SHOW_TABLES" ->
         Done(RowSet(<<"Tables_in_database">>,
                     [i \in 1..Len(TableOrder) |-> <<Str(TableOrder[i])>>]), db)
    [] ast.type = "SELECT" -> executeSelect(ast, db)
    [] ast.type = "INSERT" -> executeInsert(ast, db)
    [] ast.type = "UPDATE" -> executeUpdate(ast, db)
    [] ast.type = "DELETE" -> executeDelete(ast, db)
    [] OTHER -> Raised(<<"Unsupported AST type:", ast.type>>, db)

(***************************************************************************)
(* The component: its state, the texts typed into the editor, and one      *)
(* action per handler.                                                     *)
(***************************************************************************)
VARIABLES
  query,         \* useState(''): the editor's text, as its lexemes
  result,        \* useState(null)
  error,         \* useState(null)
  parseTree,     \* useState(null)
  mockDatabase,  \* useState({users: [...], orders: [], products: []})
  mounted,       \* the component is on screen (React removes it when a
                 \* render throws)
  dbAtCall,      \* history: mockDatabase when the last handler was entered
  lastOp,        \* history: the handler that ran last
  runs,          \* history: the number of clicks on Run so far
  lexer,         \* a LexicalAnalyzer object: input, position, tokens
  parser         \* an SQLParser object: tokens, position

vars ==
  <<query, result, error, parseTree, mockDatabase, mounted, dbAtCall, lastOp, runs,
    lexer, parser>>

\* Between two handlers of the component no lexer and no parser object is
\* alive: lexicalAnalysis and parseSQL make one, use it and drop it inside
\* executeQuery.
NoLexer ==
  [state |-> "none", input |-> <<>>, position |-> 0, tokens |-> <<>>,
   error |-> NoError]
NoParser ==
  [state |-> "none", tokens |-> <<>>, position |-> 0, ast |-> NoNode,
   error |-> NoError]

SELECT == W("SELECT")
FROM == W("FROM")
WHERE == W("WHERE")
INSERT == W("INSERT")
INTO == W("INTO")
VALUES == W("VALUES")
UPDATE == W("UPDATE")
SET == W("SET")
DELETE == W("DELETE")
AND == W("AND")
OR == W("OR")
SHOW == W("SHOW")
TABLES == W("TABLES")

\* SQL_TEMPLATES
TemplateSelect == <<SELECT, O("*"), FROM, W("users"), P(";")>>
TemplateInsert ==
  <<INSERT, INTO, W("users"), P("("), W("id"), P(","), W("name"), P(","),
    W("email"), P(")"), VALUES, P("("), N("3"), P(","), S("Charlie"), P(","),
    S("charlie@example.com"), P(")"), P(";")>>
TemplateUpdate ==
  <<UPDATE, W("users"), SET, W("email"), O("="), S("alice.new@example.com"),
    WHERE, W("id"), O("="), N("1"), P(";")>>
TemplateDelete ==
  <<DELETE, FROM, W("users"), WHERE, W("id"), O("="), N("2"), P(";")>>

SQL_TEMPLATES == {TemplateSelect, TemplateInsert, TemplateUpdate, TemplateDelete}

\* Texts typed by hand.
SelectQueries ==
  { <<W("select"), O("*"), W("from"), W("users")>>,
    <<SELECT, O("*"), FROM, W("orders")>>,
    <<SELECT, O("*"), FROM, W("orders"), WHERE, W("id"), O("="), N("2")>>,
    <<SELECT, O("*"), FROM, W("users"), WHERE, W("id"), O("="), N("2")>>,
    <<SELECT, O("*"), FROM, W("products"), WHERE, W("id"), O("<>"), S("2")>>,
    <<SELECT, W("name"), P(","), W("age"), P(","), W("id"), FROM, W("users"),
      WHERE, W("id"), O(">"), N("1")>>,
    <<SELECT, W("item"), FROM, W("orders"), WHERE, W("item"), O("<="), S("book")>>,
    <<SELECT, W("id"), P(","), W("name"), FROM, W("users"), WHERE, W("id"),
      O("="), N("1"), AND, P("("), W("name"), O("="), S("Alice"), OR,
      W("name"), O("="), S("Bob"), P(")")>>,
    <<SELECT, W("id"), FROM, W("users"), WHERE, W("id"), O("="), N("1"), OR,
      W("id"), O("="), N("2")>>,
    <<SELECT, W("id"), FROM, W("users"), WHERE, W("age"), OR, W("id")>>,
    <<SELECT, W("id"), FROM, W("orders"), WHERE, W("id"), O("="), N("1"), AND,
      W("item"), O("="), S("pen")>>,
    <<SELECT, W("id"), P(","), O("*"), FROM, W("users")>>,
    <<SELECT, O("*"), FROM, W("nosuch")>>,
    <<SELECT, W("id"), FROM, W("constructor")>>,
    <<SELECT, W("id"), FROM, W("users"), W("users")>>,
    <<SELECT>>,
    <<SELECT, O("*"), FROM>> }

InsertQueries ==
  { <<INSERT, INTO, W("orders"), P("("), W("id"), P(","), W("item"), P(")"),
      VALUES, P("("), N("1"), P(","), S("pen"), P(")"), P(","), P("("),
      N("2"), P(","), W("book"), P(")")>>,
    <<INSERT, INTO, W("products"), P("("), W("id"), P(","), W("id"), P(")"),
      VALUES, P("("), N("1"), P(","), N("2"), P(")")>>,
    <<INSERT, INTO, W("orders"), P("("), W("id"), P(")"), VALUES, P("("),
      N("1"), P(")"), P(","), P("("), N("2"), P(","), N("3"), P(")")>>,
    <<INSERT, INTO, W("orders"), P("("), W("id"), P(","), W("item"), P(")"),
      VALUES, P("("), N("1"), P(")")>>,
    <<INSERT, INTO, W("orders"), VALUES, P("("), N("1"), P(")")>>,
    <<INSERT, INTO, W("nosuch"), P("("), W("id"), P(")"), VALUES, P("("),
      N("1"), P(")")>>,
    <<INSERT, INTO, W("constructor"), P("("), W("id"), P(")"), VALUES, P("("),
      N("1"), P(")")>>,
    <<INSERT, INTO, W("nosuch"), P("("), W("id"), P(")"), VALUES, P("("),
      N("1"), P(","), N("2"), P(")")>>,
    <<INSERT, INTO, W("orders"), P("("), W("id"), P(")"), VALUES, P("(")>> }

UpdateQueries ==
  { <<UPDATE, W("orders"), SET, W("item"), O("="), W("book"), P(","),
      W("item"), O("="), S("pen"), P(","), W("age"), O("="), N("3"),
      WHERE, W("id"), O(">="), N("2")>>,
    <<UPDATE, W("products"), SET, W("id"), O("="), N("01")>>,
    <<UPDATE, W("users"), SET, W("name"), O("="), S("Al"), WHERE, W("id"),
      O("="), N("1"), AND, W("name"), O("="), S("Alice")>>,
    <<UPDATE, W("users"), SET, W("age"), O("="), N("1"), WHERE, W("id"),
      O("+"), N("1"), O("="), N("2")>>,
    <<UPDATE, W("orders"), SET, W("id"), O("="), N("1"), WHERE, W("id"),
      O("*"), N("2")>>,
    <<UPDATE, W("nosuch"), SET, W("id"), O("="), N("1")>>,
    <<UPDATE, W("constructor"), SET, W("id"), O("="), N("1")>>,
    <<UPDATE, W("users"), SET, W("id"), O("=")>> }

DeleteQueries ==
  { <<DELETE, FROM, W("users"), P(";")>>,
    <<DELETE, FROM, W("orders")>>,
    <<DELETE, FROM, W("users"), WHERE, W("name"), O("<"), S("B")>>,
    <<DELETE, FROM, W("users"), WHERE, W("id"), O("="), S("1")>>,
    <<DELETE, FROM, W("orders"), WHERE, W("age"), AND, W("item")>>,
    <<DELETE, FROM, W("users"), WHERE, W("id"), O("="), N("1"), OR, W("id"),
      O("="), N("2")>>,
    <<DELETE, FROM, W("users"), WHERE, W("id"), O("/"), N("2")>>,
    <<DELETE, FROM, W("nosuch"), WHERE, W("id"), O("="), N("1")>>,
    <<DELETE, FROM, W("nosuch")>> }

OtherQueries ==
  { <<>>,
    <<SHOW, TABLES, P(";")>>,
    <<W("show"), W("tables")>>,
    <<SHOW>>,
    <<SHOW, W("users")>>,
    <<W("SELEKT"), O("*"), FROM, W("users"), P(";")>>,
    <<S("select"), O("*"), FROM, W("users")>>,
    <<S("Select")>>,
    <<S("SHOW"), TABLES>>,
    <<FROM, W("users")>>,
    <<W("CREATE"), W("TABLE"), W("users")>>,
    <<N("1"), P(";")>>,
    <<O("*"), FROM, W("users")>>,
    <<P("("), SELECT>>,
    <<W("users")>> }

Queries ==
  SQL_TEMPLATES \cup SelectQueries \cup InsertQueries \cup UpdateQueries
    \cup DeleteQueries \cup OtherQueries

NoResult == [kind |-> "null"]

\* The component as it is mounted.
InitialComponent ==
  /\ query = <<>>
  /\ result = NoResult
  /\ error = NoError
  /\ parseTree = NoNode
  /\ mockDatabase =
       [users |-> << <<Prop("id", Num(1)), Prop("name", Str("Alice")),
                       Prop("email", Str("alice@example.com"))>>,
                     <<Prop("id", Num(2)), Prop("name", Str("Bob")),
                       Prop("email", Str("bob@example.com"))>> >>,
        orders |-> <<>>,
        products |-> <<>>]
  /\ mounted = TRUE
  /\ dbAtCall = mockDatabase
  /\ lastOp = "init"
  /\ runs = 0

Init == InitialComponent /\ lexer = NoLexer /\ parser = NoParser

\* onChange of the textarea
handleQueryChange(value) ==
  /\ mounted
  /\ query' = value
  /\ error' = NoError
  /\ dbAtCall' = mockDatabase
  /\ lastOp' = "change"
  /\ UNCHANGED <<result, parseTree, mockDatabase, mounted, runs, lexer, parser>>

\* onClick of a template button: setQuery(template)
setTemplate(template) ==
  /\ mounted
  /\ query' = template
  /\ dbAtCall' = mockDatabase
  /\ lastOp' = "template"
  /\ UNCHANGED <<result, error, parseTree, mockDatabase, mounted, runs, lexer, parser>>

clearEditor ==
  /\ mounted
  /\ query' = <<>>
  /\ result' = NoResult
  /\ error' = NoError
  /\ parseTree' = NoNode
  /\ dbAtCall' = mockDatabase
  /\ lastOp' = "clear"
  /\ UNCHANGED <<mockDatabase, mounted, runs, lexer, parser>>

\* The outcome of one click on Run: the AST, and what executeAST did.
Compile(q) == parseSQL(lexicalAnalysis(q))

Run(q, db) ==
  LET ast == Compile(q)
  IN  IF ~ast.ok THEN Raised(ast.err, db) ELSE executeAST(ast.val, db)

\* A click on Run.  The state setters take effect at the render that
\* follows; if the setDB updater throws there, React discards the update and
\* removes the component.
executeQuery ==
  /\ mounted
  /\ runs < MaxRuns
  /\ runs' = runs + 1
  /\ \E ast \in {Compile(query)} : \E run \in {Run(query, mockDatabase)} :
       IF run.crash
       THEN /\ mounted' = FALSE
            /\ UNCHANGED <<result, parseTree, error, mockDatabase>>
       ELSE /\ mounted' = TRUE
            /\ IF run.ok
               THEN /\ result' = run.result
                    /\ parseTree' = ast.val
                    /\ error' = NoError
               ELSE /\ error' = run.err
                    /\ UNCHANGED <<result, parseTree>>
            /\ mockDatabase' = run.db
  /\ dbAtCall' = mockDatabase
  /\ lastOp' = "run"
  /\ UNCHANGED <<query, lexer, parser>>

Next ==
  \/ \E value \in Queries : handleQueryChange(value)
  \/ \E template \in SQL_TEMPLATES : setTemplate(template)
  \/ clearEditor
  \/ executeQuery

Spec == Init /\ [][Next]_vars

(***************************************************************************)
(* Properties.  After a click on Run, query is the text that was run,      *)
(* dbAtCall the database it ran against, mockDatabase the database it      *)
(* left; error is empty exactly when the run succeeded, and then result    *)
(* and parseTree are its result and AST.                                   *)
(***************************************************************************)
Ran == lastOp = "run" /\ mounted
Succeeded == Ran /\ error = NoError
Failed == Ran /\ error # NoError
Ast == Compile(query)
RanStatement(type) == Ran /\ Ast.ok /\ Ast.val.type = type
HasWhere(ast) == ast.where.type # "null"
OnTable(ast) == ast.table \in DOMAIN dbAtCall
\* the WHERE predicate of the statement is true of the row
Matches(row, where) == Truthy(evaluateExpression(row, where).val)

ComparisonOperators == {"=", "<>", "<", ">", "<=", ">="}
IsPrimary(e) == e.type \in {"Identifier", "Literal"}

\* Comparisons of identifiers and literals, combined with AND / OR.
RECURSIVE IsLogicOfComparisons(_)
IsLogicOfComparisons(e) ==
  /\ e.type = "BinaryExpression"
  /\ \/ /\ e.operator \in ComparisonOperators
        /\ IsPrimary(e.left) /\ IsPrimary(e.right)
     \/ /\ e.operator \in {"AND", "OR"}
        /\ IsLogicOfComparisons(e.left) /\ IsLogicOfComparisons(e.right)

\* The boolean that standard logic gives such an expression.
RECURSIVE StandardValue(_, _)
StandardValue(row, e) ==
  CASE e.operator = "AND" -> StandardValue(row, e.left) /\ StandardValue(row, e.right)
    [] e.operator = "OR" -> StandardValue(row, e.left) \/ StandardValue(row, e.right)
    [] OTHER -> Matches(row, e)

\* C2 (as claimed): on every row, a WHERE expression built from comparisons
\* combined with AND / OR evaluates without error to the boolean that
\* standard logic gives it.
C2_LogicalExpressionsEvaluate ==
  (/\ Ran /\ Ast.ok /\ Ast.val.type \in {"SELECT", "UPDATE", "DELETE"}
   /\ HasWhere(Ast.val) /\ IsLogicOfComparisons(Ast.val.where) /\ OnTable(Ast.val))
    => \A i \in 1..Len(dbAtCall[Ast.val.table]) :
         LET row == dbAtCall[Ast.val.table][i]
         IN  evaluateExpression(row, Ast.val.where)
               = Returns(Bool(StandardValue(row, Ast.val.where)))

\* The error the claim describes: one that says the columns cannot be
\* inferred (the evaluator has no such message; a TypeError of the host is
\* not one).
IsCannotInferColumns(err) == err # NoError /\ err[1] = "Cannot infer columns"

\* C3 (as claimed): SELECT * on a table that exists and has no rows fails
\* with the cannot-infer-columns error, and never returns a row set with an
\* empty column list.
C3_SelectStarOnEmptyTableIsDescriptive ==
  (/\ RanStatement("SELECT") /\ includes(Ast.val.columns, "*")
   /\ OnTable(Ast.val) /\ Len(dbAtCall[Ast.val.table]) = 0)
    => /\ IsCannotInferColumns(error)
       /\ ~(parseTree = Ast.val /\ result.kind = "rows" /\ result.columns = <<>>)

\* C4: a run that ends in an error, shown in the error box or thrown at
\* the render that follows, leaves the database as it was.
C4_FailedStatementLeavesStore ==
  (lastOp = "run" /\ (error # NoError \/ ~mounted)) => mockDatabase = dbAtCall

EvaluatorErrors ==
  {"Unsupported operand type:", "Unsupported operator in WHERE clause:"}

\* an UPDATE whose WHERE makes the evaluator throw, on a table with
\* several rows
C4_Witness ==
  /\ RanStatement("UPDATE") /\ OnTable(Ast.val) /\ Failed
  /\ error[1] \in EvaluatorErrors
  /\ Len(dbAtCall[Ast.val.table]) >= 2

\* What a value token is stored as: a Number token as the number it
\* denotes, a String or Identifier token as its text.
IsStoredValue(v, token) ==
  IF token.type = "NUMBER"
  THEN v.t = "number" /\ v.n = NumeralTable[token.value]
  ELSE v = Str(token.value)

Range(seq) == {seq[i] : i \in 1..Len(seq)}
LastIndex(seq, x) ==
  CHOOSE i \in 1..Len(seq) : seq[i] = x /\ \A j \in (i + 1)..Len(seq) : seq[j] # x

\* C5: a successful INSERT of n tuples appends n rows after the unchanged
\* previous rows, in tuple order; each new row holds the listed columns,
\* paired by position with the converted values of its tuple (a column
\* listed twice holds the value at its last position); numbers are stored
\* as numbers, strings and identifiers as their text.
C5_InsertAppendsRows ==
  (RanStatement("INSERT") /\ Succeeded)
    => LET ast == Ast.val
           old == dbAtCall[ast.table]
           new == mockDatabase[ast.table]
           n == Len(ast.valuesList)
       IN  /\ Len(new) = Len(old) + n
           /\ SubSeq(new, 1, Len(old)) = old
           /\ result = Message("Inserted", n, ast.table)
           /\ \A j \in 1..n :
                LET row == new[Len(old) + j]
                IN  /\ Range(ObjectKeys(row)) = Range(ast.columns)
                    /\ Len(row) = Cardinality(Range(ast.columns))
                    /\ \A c \in Range(ast.columns) :
                         IsStoredValue(GetProp(row, c),
                                       ast.valuesList[j][LastIndex(ast.columns, c)])

\* several tuples, a Number, a String and an Identifier value, appended to
\* a table that had rows
C5_Witness ==
  /\ RanStatement("INSERT") /\ Succeeded
  /\ Len(Ast.val.valuesList) >= 2
  /\ Len(dbAtCall[Ast.val.table]) >= 1
  /\ \E j \in 1..Len(Ast.val.valuesList) :
       \E i \in 1..Len(Ast.val.valuesList[j]) :
         Ast.val.valuesList[j][i].type = "IDENTIFIER"

AssignedColumns(ast) == {ast.assignments[i].column : i \in 1..Len(ast.assignments)}
LastAssignment(ast, c) ==
  ast.assignments[CHOOSE i \in 1..Len(ast.assignments) :
                    /\ ast.assignments[i].column = c
                    /\ \A j \in (i + 1)..Len(ast.assignments) :
                         ast.assignments[j].column # c]

MatchedRows(ast, table) ==
  {i \in 1..Len(table) : ~HasWhere(ast) \/ Matches(table[i], ast.where)}

\* C6: a successful UPDATE assigns every assigned column (the last value
\* assigned to it) in exactly the rows that match WHERE, or in all rows
\* without WHERE; it leaves their other columns and all other rows as they
\* were, keeps length and order, and reports the number of matched rows.
C6_UpdateAssignsMatchedRows ==
  (RanStatement("UPDATE") /\ Succeeded)
    => LET ast == Ast.val
           old == dbAtCall[ast.table]
           new == mockDatabase[ast.table]
           matched == MatchedRows(ast, old)
       IN  /\ Len(new) = Len(old)
           /\ result = Message("Updated", Cardinality(matched), ast.table)
           /\ \A i \in 1..Len(old) :
                IF i \in matched
                THEN /\ SubSeq(ObjectKeys(new[i]), 1, Len(old[i])) = ObjectKeys(old[i])
                     /\ Range(ObjectKeys(new[i]))
                          = Range(ObjectKeys(old[i])) \cup AssignedColumns(ast)
                     /\ \A c \in AssignedColumns(ast) :
                          IsStoredValue(GetProp(new[i], c), LastAssignment(ast, c).value)
                     /\ \A c \in Range(ObjectKeys(old[i])) \ AssignedColumns(ast) :
                          GetProp(new[i], c) = GetProp(old[i], c)
                ELSE new[i] = old[i]

\* an UPDATE with WHERE that changed some rows of a table and not others
C6_Witness ==
  /\ RanStatement("UPDATE") /\ Succeeded /\ HasWhere(Ast.val)
  /\ LET old == dbAtCall[Ast.val.table]
         matched == MatchedRows(Ast.val, old)
     IN  /\ matched # {}
         /\ matched # 1..Len(old)
         /\ mockDatabase[Ast.val.table] # old

\* C7: a successful DELETE with WHERE keeps exactly the rows that do not
\* match, in their order, and reports length before minus length after.
C7_DeleteRemovesMatchedRows ==
  (RanStatement("DELETE") /\ Succeeded /\ HasWhere(Ast.val))
    => LET ast == Ast.val
           old == dbAtCall[ast.table]
           new == mockDatabase[ast.table]
           Unmatched(row) == ~Matches(row, ast.where)
       IN  /\ new = SelectSeq(old, Unmatched)
           /\ result = Message("Deleted", Len(old) - Len(new), ast.table)

\* a DELETE with WHERE that removed some rows and kept others
C7_Witness ==
  /\ RanStatement("DELETE") /\ Succeeded /\ HasWhere(Ast.val)
  /\ Len(mockDatabase[Ast.val.table]) >= 1
  /\ Len(mockDatabase[Ast.val.table]) < Len(dbAtCall[Ast.val.table])

\* C8: a successful SELECT returns, in table order, one row per table row
\* that matches WHERE (every row without WHERE), each listing the selected
\* columns in order with null for a column the row lacks; with * the
\* columns are the keys of the table's first row.
C8_SelectFiltersAndProjects ==
  (RanStatement("SELECT") /\ Succeeded)
    => LET ast == Ast.val
           table == dbAtCall[ast.table]
           Matched(row) == ~HasWhere(ast) \/ Matches(row, ast.where)
           kept == SelectSeq(table, Matched)
           columns == IF includes(ast.columns, "*")
                      THEN ObjectKeys(table[1]) ELSE ast.columns
       IN  /\ result.kind = "rows"
           /\ result.columns = columns
           /\ Len(result.rows) = Len(kept)
           /\ \A r \in 1..Len(kept) :
                /\ Len(result.rows[r]) = Len(columns)
                /\ \A c \in 1..Len(columns) :
                     result.rows[r][c] =
                       IF \E k \in 1..Len(kept[r]) : kept[r][k].k = columns[c]
                       THEN GetProp(kept[r], columns[c]) ELSE JsNull

\* SELECT * whose WHERE filters out the first row and returns a row whose
\* keys are not those of the first row
C8_Witness ==
  /\ RanStatement("SELECT") /\ Succeeded /\ HasWhere(Ast.val)
  /\ includes(Ast.val.columns, "*")
  /\ Len(result.rows) >= 1
  /\ ~Matches(dbAtCall[Ast.val.table][1], Ast.val.where)
  /\ \E i \in 1..Len(dbAtCall[Ast.val.table]) :
       /\ Matches(dbAtCall[Ast.val.table][i], Ast.val.where)
       /\ ObjectKeys(dbAtCall[Ast.val.table][i]) # result.columns

ColumnCountMismatch == <<"Column count does not match value count">>

\* C9: an INSERT into an existing table fails with the column-count error
\* exactly when some tuple's length differs from the column list's length,
\* and succeeds otherwise; without a column list that length is 0.
C9_InsertColumnCountCheck ==
  (RanStatement("INSERT") /\ OnTable(Ast.val))
    => LET ast == Ast.val
           mismatch == \E j \in 1..Len(ast.valuesList) :
                         Len(ast.valuesList[j]) # Len(ast.columns)
       IN  /\ mismatch => error = ColumnCountMismatch
           /\ ~mismatch => error = NoError

\* an INSERT without column list, and one whose later tuple is too long
C9_Witness ==
  /\ RanStatement("INSERT") /\ OnTable(Ast.val)
  /\ error = ColumnCountMismatch
  /\ \/ Ast.val.columns = <<>>
     \/ Len(Ast.val.valuesList[Len(Ast.val.valuesList)]) > Len(Ast.val.columns)

Commands == {"SELECT", "INSERT", "UPDATE", "DELETE", "SHOW"}

\* C10 (as claimed): parse fails with the empty-query error on no tokens,
\* and with the unsupported-command error whenever the first token is not
\* a Keyword token whose value is one of the five commands.
C10_DispatchRejectsNonCommands ==
  Ran =>
    LET tokens == lexicalAnalysis(query)
    IN  /\ Len(tokens) = 0 => error = <<"Empty query">>
        /\ (/\ Len(tokens) > 0
            /\ ~(tokens[1].type = "KEYWORD" /\ tokens[1].value \in Commands))
             => error = <<"Unsupported command:", tokens[1].value>>

(***************************************************************************)
(* The parser on its own: parseSQL(tokens) for the token arrays of a set   *)
(* of texts, one parser object per text.                                   *)
(***************************************************************************)
\* A WHERE expression has at most MaxExprSize binary operators and pairs of
\* parentheses together.
MaxExprSize == 3

Operands == {W("id"), N("1")}
OperatorLexemes ==
  {OR, AND, O("="), O("<>"), O("<"), O(">"), O("<="), O(">="), O("+"), O("-"),
   O("*"), O("/")}

\* The shapes of the texts of the expression grammar with n operators and
\* pairs of parentheses: a place for each operand and for each operator.
OperandPlace == [k |-> "place", s |-> "operand"]
OperatorPlace == [k |-> "place", s |-> "operator"]

RECURSIVE ShapesOfSize(_)
ShapesOfSize(n) ==
  IF n = 0 THEN {<<OperandPlace>>}
  ELSE {<<P("(")>> \o e \o <<P(")")>> : e \in ShapesOfSize(n - 1)}
       \cup UNION {{l \o <<OperatorPlace>> \o r : l \in ShapesOfSize(i),
                                                 r \in ShapesOfSize(n - 1 - i)}
                   : i \in 0..(n - 1)}

Shapes == UNION {ShapesOfSize(n) : n \in 0..MaxExprSize}

OperatorPlaces(shape) == {i \in 1..Len(shape) : shape[i] = OperatorPlace}

\* The text of a shape: operators[j] in the j-th operator place and the
\* operand in every operand place (the texts of the editor have the mixed
\* ones).
Fill(shape, operators, operand) ==
  [i \in 1..Len(shape) |->
     IF shape[i] = OperandPlace THEN operand
     ELSE IF shape[i] = OperatorPlace
     THEN operators[Cardinality({j \in OperatorPlaces(shape) : j <= i})]
     ELSE shape[i]]

\* A statement that ends in a WHERE clause, up to the keyword.
WhereHeads == { <<DELETE, FROM, W("users"), WHERE>> }

\* Texts whose WHERE clause goes through every level of the ladder.
LadderQueries ==
  { <<DELETE, FROM, W("users"), WHERE, W("id"), O("+"), N("1"), O("*"), N("2"),
      O(">="), N("3"), AND, W("name"), O("<>"), S("Bob"), OR, P("("), W("id"),
      O("-"), N("1"), P(")"), O("/"), N("2"), O("<"), N("1")>>,
    <<UPDATE, W("users"), SET, W("id"), O("="), N("1"), WHERE, W("id"), O("="),
      N("1"), OR, W("id"), O("="), N("2"), AND, P("("), W("id"), O(">"), N("1"),
      OR, W("id"), O("<="), N("3"), P(")")>>,
    <<SELECT, O("*"), FROM, W("users"), WHERE, P("("), P("("), W("id"), P(")"),
      P(")"), O("="), S("1")>> }

\* Every text, cut off after any number of lexemes.
QueryPrefixes ==
  UNION {{SubSeq(q, 1, n) : n \in 0..Len(q)} : q \in Queries \cup LadderQueries}

\* new SQLParser(tokens)
newSQLParser(tokens) ==
  [state |-> "new", tokens |-> tokens, position |-> 0, ast |-> NoNode,
   error |-> NoError]

ParserInit ==
  /\ InitialComponent
  /\ lexer = NoLexer
  /\ \/ \E q \in QueryPrefixes : parser = newSQLParser(lexicalAnalysis(q))
     \/ \E head \in WhereHeads, shape \in Shapes, operand \in Operands :
          \E operators \in [1..Cardinality(OperatorPlaces(shape)) -> OperatorLexemes] :
            parser =
              newSQLParser(lexicalAnalysis(head \o Fill(shape, operators, operand)))

\* const ast = parser.parse(): the AST is returned or an error is thrown,
\* with the position where the parser stands then.
parserParse ==
  /\ parser.state = "new"
  /\ \E out \in {parse(parser.tokens)} :
       parser' = [parser EXCEPT !.state = IF out.ok THEN "returned" ELSE "thrown",
                                !.position = out.pos,
                                !.ast = out.val,
                                !.error = out.err]
  /\ UNCHANGED <<query, result, error, parseTree, mockDatabase, mounted, dbAtCall,
                 lastOp, runs, lexer>>

ParserNext == parserParse

ParserSpec == ParserInit /\ [][ParserNext]_vars

\* The tokens after the keyword WHERE of a statement (none without one).
WhereIndex(tokens) ==
  {i \in 1..Len(tokens) : tokens[i] = Token("KEYWORD", "WHERE")}
WhereTokens(tokens) ==
  IF WhereIndex(tokens) = {} THEN <<>>
  ELSE LET w == CHOOSE i \in WhereIndex(tokens) : \A j \in WhereIndex(tokens) : i <= j
       IN  SubSeq(tokens, w + 1, Len(tokens))

\* The precedence ladder of the expression grammar, lowest first.
Level(token) ==
  CASE token = Token("KEYWORD", "OR") -> 1
    [] token = Token("KEYWORD", "AND") -> 2
    [] token.type = "OPERATOR" /\ token.value \in {"=", "<>"} -> 3
    [] token.type = "OPERATOR" /\ token.value \in {"<", ">", "<=", ">="} -> 4
    [] token.type = "OPERATOR" /\ token.value \in {"+", "-"} -> 5
    [] token.type = "OPERATOR" /\ token.value \in {"*", "/"} -> 6
    [] OTHER -> 0

IsOpen(token) == token = Token("PUNCTUATION", "(")
IsClose(token) == token = Token("PUNCTUATION", ")")
IsOperand(token) == token.type \in {"IDENTIFIER", "NUMBER", "STRING"}

\* the number of parentheses open before token i
RECURSIVE Depth(_, _)
Depth(ts, i) ==
  IF i <= 1 THEN 0
  ELSE Depth(ts, i - 1) + (IF IsOpen(ts[i - 1]) THEN 1 ELSE 0)
                        - (IF IsClose(ts[i - 1]) THEN 1 ELSE 0)

\* the operators outside every pair of parentheses
TopOperators(ts) == {i \in 1..Len(ts) : Level(ts[i]) > 0 /\ Depth(ts, i) = 0}

\* the operator an expression is split at: of the lowest level present
\* outside parentheses, the rightmost
SplitAt(ts) ==
  CHOOSE i \in TopOperators(ts) :
    \A j \in TopOperators(ts) :
      \/ Level(ts[i]) < Level(ts[j])
      \/ Level(ts[i]) = Level(ts[j]) /\ j <= i

\* ts is a text of the expression grammar
RECURSIVE WellFormed(_)
WellFormed(ts) ==
  IF ts = <<>> THEN FALSE
  ELSE IF TopOperators(ts) # {}
  THEN /\ WellFormed(SubSeq(ts, 1, SplitAt(ts) - 1))
       /\ WellFormed(SubSeq(ts, SplitAt(ts) + 1, Len(ts)))
  ELSE IF Len(ts) = 1 THEN IsOperand(ts[1])
  ELSE /\ IsOpen(ts[1]) /\ IsClose(ts[Len(ts)])
       /\ WellFormed(SubSeq(ts, 2, Len(ts) - 1))

\* the tree the ladder gives a well-formed text
RECURSIVE LadderTree(_)
LadderTree(ts) ==
  IF TopOperators(ts) # {}
  THEN BinaryExpression(ts[SplitAt(ts)].value,
                        LadderTree(SubSeq(ts, 1, SplitAt(ts) - 1)),
                        LadderTree(SubSeq(ts, SplitAt(ts) + 1, Len(ts))))
  ELSE IF Len(ts) = 1
  THEN IF ts[1].type = "IDENTIFIER"
       THEN [type |-> "Identifier", value |-> ts[1].value]
       ELSE [type |-> "Literal", value |-> ts[1].value, valueType |-> ts[1].type]
  ELSE LadderTree(SubSeq(ts, 2, Len(ts) - 1))

\* C11: the parser returns, for a statement whose WHERE clause is a text of
\* the expression grammar, the tree of the precedence ladder OR < AND <
\* (= <>) < (< > <= >=) < (+ -) < (* /), each level grouping to the left,
\* with a parenthesized part standing as the operand it encloses.
C11_ExpressionTreeFollowsLadder ==
  (parser.state \in {"returned", "thrown"} /\ WellFormed(WhereTokens(parser.tokens)))
    => /\ parser.state = "returned"
       /\ parser.ast.where = LadderTree(WhereTokens(parser.tokens))

\* (id + id) * id has been parsed: the parentheses group against the
\* ladder
C11_Witness ==
  /\ parser.state = "returned"
  /\ WhereTokens(parser.tokens) =
       <<Token("PUNCTUATION", "("), Token("IDENTIFIER", "id"),
         Token("OPERATOR", "+"), Token("IDENTIFIER", "id"), Token("PUNCTUATION", ")"),
         Token("OPERATOR", "*"), Token("IDENTIFIER", "id")>>
  /\ parser.ast.where.operator = "*"
  /\ parser.ast.where.left.operator = "+"

TokenTypes == {"KEYWORD", "IDENTIFIER", "STRING", "NUMBER", "OPERATOR", "PUNCTUATION"}

\* the error says that the input ended
ReportsEndOfInput(err) ==
  \/ err = <<"Unexpected end of input">>
  \/ /\ Len(err) = 4 /\ err[1] = "Expected" /\ err[2] \in TokenTypes
     /\ err[4] = "but got end of input"

\* the error names an expected kind (and value) and the kind and value of
\* the token found
ReportsExpectedAndActual(err, token) ==
  /\ Len(err) = 6 /\ err[1] = "Expected" /\ err[2] \in TokenTypes
  /\ err[4] = "but got" /\ err[5] = token.type /\ err[6] = token.value

\* C12: when a statement's parse fails past its first keyword, the error
\* reports end of input if the parser stands at the end of the tokens, and
\* otherwise the expected kind and value with the kind and value of the
\* token it stands at.
C12_ParseErrorsReportWhatWasFound ==
  (parser.state = "thrown" /\ parser.position > 0)
    => IF peek(parser.tokens, parser.position).type = "null"
       THEN ReportsEndOfInput(parser.error)
       ELSE ReportsExpectedAndActual(parser.error,
                                     peek(parser.tokens, parser.position))

\* C13: no SELECT, UPDATE or DELETE that the parser accepts and that filters
\* a table with rows ends in the evaluator's unsupported-operator error.
C13_UnsupportedOperatorUnreachable ==
  (/\ Ran /\ Ast.ok /\ Ast.val.type \in {"SELECT", "UPDATE", "DELETE"}
   /\ OnTable(Ast.val) /\ Len(dbAtCall[Ast.val.table]) > 0)
    => ~(error # NoError /\ error[1] = "Unsupported operator in WHERE clause:")

(***************************************************************************)
(* The lexer on its own (class LexicalAnalyzer): the input is the text,    *)
(* character by character, and every step is one turn of the loop of       *)
(* analyze().  The tokens carry the position they start at.                *)
(***************************************************************************)
\* An input has at most MaxInputLength characters.
MaxInputLength == 4

isWhitespace(char) == char \in {" ", "\t", "\n", "\r", "\f"}

isLetter(char) ==
  \E p \in UpperLetters : char = p[1] \/ char = p[2]

isDigit(char) == char \in {"0", "1", "2", "3", "4", "5", "6", "7", "8", "9"}

isIdentifierChar(char) == isLetter(char) \/ isDigit(char) \/ char = "_"

\* peek() of the lexer; "" stands for null
peekChar(input, position) ==
  IF position < Len(input) THEN SubSeq(input, position + 1, position + 1) ELSE ""

\* new Token(type, value, position)
TokenAt(token, position) ==
  [type |-> token.type, value |-> token.value, position |-> position]

\* the while loop of tokenizeIdentifier
RECURSIVE readIdentifier(_, _, _)
readIdentifier(input, position, value) ==
  IF peekChar(input, position) # "" /\ isIdentifierChar(peekChar(input, position))
  THEN readIdentifier(input, position + 1, value \o peekChar(input, position))
  ELSE [position |-> position, value |-> value]

\* the while loop of tokenizeNumber
RECURSIVE tokenizeNumber(_, _, _, _)
tokenizeNumber(input, position, value, hasDecimalPoint) ==
  IF /\ peekChar(input, position) # ""
     /\ (isDigit(peekChar(input, position)) \/ peekChar(input, position) = ".")
     /\ ~(peekChar(input, position) = "." /\ hasDecimalPoint)
  THEN tokenizeNumber(input, position + 1, value \o peekChar(input, position),
                      hasDecimalPoint \/ peekChar(input, position) = ".")
  ELSE [position |-> position, value |-> value]

\* the while loop of tokenizeString, from the character after the opening
\* quote
RECURSIVE readString(_, _, _)
readString(input, position, value) ==
  IF peekChar(input, position) = "" THEN [position |-> position, value |-> value]
  ELSE IF peekChar(input, position) = "'"
  THEN IF peekChar(input, position + 1) = "'"
       THEN readString(input, position + 2, value \o "'")
       ELSE [position |-> position, value |-> value]
  ELSE readString(input, position + 1, value \o peekChar(input, position))

\* tokenizeString with the position at the opening quote
tokenizeString(input, position) ==
  LET end == readString(input, position + 1, "")
  IN  IF peekChar(input, end.position) = "'"
      THEN [ok |-> TRUE, position |-> end.position + 1, value |-> end.value,
            err |-> NoError]
      ELSE [ok |-> FALSE, position |-> end.position, value |-> end.value,
            err |-> <<"Unterminated string at position", ToString(position)>>]

\* tokenizeOperator reading nothing.
tokenizeOperator_readNothing(input, position, value) ==
  [position |-> position, value |-> value]

RECURSIVE tokenizeOperator(_, _, _)
tokenizeOperator(input, position, value) ==
  IF /\ peekChar(input, position) # ""
     /\ (value \o peekChar(input, position)) \in OPERATORS
  THEN tokenizeOperator(input, position + 1, value \o peekChar(input, position))
  ELSE [position |-> position, value |-> value]

\* new LexicalAnalyzer(input)
newLexicalAnalyzer(input) ==
  [state |-> "scanning", input |-> input, position |-> 0, tokens |-> <<>>,
   error |-> NoError]

\* The characters the inputs are written with: one or two of each class
\* the scanning loop tells apart, and one it rejects.
Alphabet == <<" ", "o", "r", "_", "1", ".", "'", "<", "=", "(", "#">>

RECURSIVE Text(_)
Text(characters) ==
  IF characters = <<>> THEN ""
  ELSE Head(characters) \o Text(Tail(characters))

\* Texts of the editor as they are typed.
TypedTexts ==
  { "SELECT * FROM users;",
    "select name from users where id<=2",
    "UPDATE users SET name = 'it''s' WHERE id <> 1.5",
    "INSERT INTO orders (id) VALUES (1.2.3)",
    "DELETE FROM users WHERE name = 'Bob",
    "SELECT a_b FROM t WHERE x >= 10 % 3" }

LexerInit ==
  /\ InitialComponent
  /\ parser = NoParser
  /\ \/ \E input \in TypedTexts : lexer = newLexicalAnalyzer(input)
     \/ \E n \in 0..MaxInputLength :
          \E characters \in [1..n -> 1..Len(Alphabet)] :
            lexer = newLexicalAnalyzer(Text([i \in 1..n |-> Alphabet[characters[i]]]))

\* One turn of while (this.position < this.input.length) is taken.
Scanning == lexer.state = "scanning" /\ lexer.position < Len(lexer.input)
char == peekChar(lexer.input, lexer.position)

LexerFrame ==
  UNCHANGED <<query, result, error, parseTree, mockDatabase, mounted, dbAtCall,
              lastOp, runs, parser>>

push(token, position) ==
  lexer' = [lexer EXCEPT !.tokens = Append(@, token), !.position = position]

skipWhitespace ==
  /\ Scanning /\ isWhitespace(char)
  /\ \E end \in {CHOOSE p \in lexer.position..Len(lexer.input) :
                   /\ \A q \in lexer.position..(p - 1) :
                        isWhitespace(peekChar(lexer.input, q))
                   /\ ~isWhitespace(peekChar(lexer.input, p))} :
       lexer' = [lexer EXCEPT !.position = end]
  /\ LexerFrame

scanIdentifier ==
  /\ Scanning /\ ~isWhitespace(char) /\ isLetter(char)
  /\ \E run \in {readIdentifier(lexer.input, lexer.position, "")} :
       push(TokenAt(tokenizeIdentifier(run.value), lexer.position), run.position)
  /\ LexerFrame

scanNumber ==
  /\ Scanning /\ ~isWhitespace(char) /\ ~isLetter(char) /\ isDigit(char)
  /\ \E run \in {tokenizeNumber(lexer.input, lexer.position, "", FALSE)} :
       push(TokenAt(Token("NUMBER", run.value), lexer.position), run.position)
  /\ LexerFrame

scanString ==
  /\ Scanning /\ ~isWhitespace(char) /\ ~isLetter(char) /\ ~isDigit(char)
  /\ char = "'"
  /\ \E run \in {tokenizeString(lexer.input, lexer.position)} :
       IF run.ok
       THEN push(TokenAt(Token("STRING", run.value), lexer.position), run.position)
       ELSE lexer' = [lexer EXCEPT !.state = "thrown", !.position = run.position,
                                   !.error = run.err]
  /\ LexerFrame

scanOperator ==
  /\ Scanning /\ ~isWhitespace(char) /\ ~isLetter(char) /\ ~isDigit(char)
  /\ char # "'" /\ char \in OPERATORS
  /\ \E run \in {tokenizeOperator(lexer.input, lexer.position, "")} :
       push(TokenAt(Token("OPERATOR", run.value), lexer.position), run.position)
  /\ LexerFrame

scanPunctuation ==
  /\ Scanning /\ ~isWhitespace(char) /\ ~isLetter(char) /\ ~isDigit(char)
  /\ char # "'" /\ char \notin OPERATORS /\ char \in {"(", ")", ",", ";"}
  /\ push(TokenAt(Token("PUNCTUATION", char), lexer.position), lexer.position + 1)
  /\ LexerFrame

throwInvalidCharacter ==
  /\ Scanning /\ ~isWhitespace(char) /\ ~isLetter(char) /\ ~isDigit(char)
  /\ char # "'" /\ char \notin OPERATORS /\ char \notin {"(", ")", ",", ";"}
  /\ lexer' = [lexer EXCEPT !.state = "thrown",
                            !.error = <<"Invalid character", char, "at position",
                                        ToString(lexer.position)>>]
  /\ LexerFrame

\* return this.tokens
analyzeReturn ==
  /\ lexer.state = "scanning" /\ ~(lexer.position < Len(lexer.input))
  /\ lexer' = [lexer EXCEPT !.state = "returned"]
  /\ LexerFrame

LexerNext ==
  \/ skipWhitespace
  \/ scanIdentifier
  \/ scanNumber
  \/ scanString
  \/ scanOperator
  \/ scanPunctuation
  \/ throwInvalidCharacter
  \/ analyzeReturn

LexerSpec == LexerInit /\ [][LexerNext]_vars

\* What a token stands for in the input: the characters from its position
\* on, as many as its kind and value take.
QuoteCount(value) ==
  Cardinality({i \in 1..Len(value) : SubSeq(value, i, i) = "'"})

SourceLength(token) ==
  IF token.type = "STRING" THEN Len(token.value) + 2 + QuoteCount(token.value)
  ELSE Len(token.value)

TokenEnd(token) == token.position + SourceLength(token)

Source(token, input) == SubSeq(input, token.position + 1, TokenEnd(token))

\* the text between the quotes of a string, '' read as '
RECURSIVE Unescape(_)
Unescape(inner) ==
  IF inner = "" THEN ""
  ELSE IF Len(inner) >= 2 /\ SubSeq(inner, 1, 2) = "''" THEN "'" \o Unescape(SubSeq(inner, 3, Len(inner)))
  ELSE SubSeq(inner, 1, 1) \o Unescape(SubSeq(inner, 2, Len(inner)))

\* the quotes that start a run of quotes after position from
QuoteRuns(input, from) ==
  {q \in from..(Len(input) - 1) :
     peekChar(input, q) = "'" /\ (q = from \/ peekChar(input, q - 1) # "'")}

\* the number of quotes in the run that starts at q
QuoteRunLength(input, q) ==
  Cardinality({r \in q..(Len(input) - 1) :
                 \A t \in q..r : peekChar(input, t) = "'"})

\* every quote after position from is one of a pair
QuotesPaired(input, from) ==
  \A q \in QuoteRuns(input, from) : QuoteRunLength(input, q) % 2 = 0

AllCharacters(text, Test(_)) == \A i \in 1..Len(text) : Test(SubSeq(text, i, i))

\* the token is what stands at its position, and it ends where no longer
\* token of its kind would
Spells(token, input) ==
  LET source == Source(token, input)
      next == peekChar(input, TokenEnd(token))
  IN  /\ TokenEnd(token) <= Len(input)
      /\ source # ""
      /\ CASE token.type \in {"IDENTIFIER", "KEYWORD"} ->
                /\ isLetter(SubSeq(source, 1, 1))
                /\ AllCharacters(source, isIdentifierChar)
                /\ ~isIdentifierChar(next)
                /\ IF upperOfCharacters(source) \in KEYWORDS
                   THEN token.type = "KEYWORD" /\ token.value = upperOfCharacters(source)
                   ELSE token.type = "IDENTIFIER" /\ token.value = source
           [] token.type = "NUMBER" ->
                /\ token.value = source
                /\ isDigit(SubSeq(source, 1, 1))
                /\ AllCharacters(source, LAMBDA c : isDigit(c) \/ c = ".")
                /\ Cardinality({i \in 1..Len(source) : SubSeq(source, i, i) = "."}) <= 1
                /\ ~isDigit(next)
                /\ next = "." =>
                     Cardinality({i \in 1..Len(source) : SubSeq(source, i, i) = "."}) = 1
           [] token.type = "STRING" ->
                /\ Len(source) >= 2
                /\ SubSeq(source, 1, 1) = "'" /\ SubSeq(source, Len(source), Len(source)) = "'"
                /\ QuotesPaired(SubSeq(source, 2, Len(source) - 1), 0)
                /\ token.value = Unescape(SubSeq(source, 2, Len(source) - 1))
                /\ next # "'"
           [] token.type = "OPERATOR" ->
                /\ token.value = source
                /\ source \in OPERATORS
                /\ next = "" \/ (source \o next) \notin OPERATORS
           [] token.type = "PUNCTUATION" ->
                /\ token.value = source
                /\ source \in {"(", ")", ",", ";"}
           [] OTHER -> FALSE

Blank(input, from, to) ==
  \A q \in from..(to - 1) : isWhitespace(peekChar(input, q))

\* tokens is the token sequence of the first upto characters of the input:
\* the tokens in order, nothing but whitespace between them
Covers(tokens, input, upto) ==
  /\ \A i \in 1..Len(tokens) : Spells(tokens[i], input) /\ TokenEnd(tokens[i]) <= upto
  /\ \A i \in 1..(Len(tokens) - 1) :
       /\ TokenEnd(tokens[i]) <= tokens[i + 1].position
       /\ Blank(input, TokenEnd(tokens[i]), tokens[i + 1].position)
  /\ IF tokens = <<>> THEN Blank(input, 0, upto)
     ELSE /\ Blank(input, 0, tokens[1].position)
          /\ Blank(input, TokenEnd(tokens[Len(tokens)]), upto)

\* no token starts with this character
InvalidCharacter(c) ==
  /\ c # "" /\ ~isWhitespace(c) /\ ~isLetter(c) /\ ~isDigit(c) /\ c # "'"
  /\ c \notin OPERATORS /\ c \notin {"(", ")", ",", ";"}

\* the error is the one of the first place of the input where no token can
\* be read: all before it is tokens and whitespace
ErrorAtFirstBadPlace ==
  \E at \in 0..(Len(lexer.input) - 1) :
    /\ Covers(lexer.tokens, lexer.input, at)
    /\ \/ /\ lexer.error = <<"Invalid character", peekChar(lexer.input, at),
                             "at position", ToString(at)>>
          /\ InvalidCharacter(peekChar(lexer.input, at))
       \/ /\ lexer.error = <<"Unterminated string at position", ToString(at)>>
          /\ peekChar(lexer.input, at) = "'"
          /\ QuotesPaired(lexer.input, at + 1)

LexerOutcome ==
  /\ lexer.position <= Len(lexer.input)
  /\ lexer.state = "scanning" => ENABLED LexerNext
  /\ lexer.state = "returned" =>
       /\ lexer.position = Len(lexer.input)
       /\ lexer.error = NoError
       /\ Covers(lexer.tokens, lexer.input, Len(lexer.input))
  /\ lexer.state = "thrown" => ErrorAtFirstBadPlace

LexerStep ==
  /\ lexer.state = "scanning" =>
       \/ lexer'.state = "scanning" /\ lexer'.position > lexer.position
       \/ lexer'.state = "returned" /\ lexer.position = Len(lexer.input)
       \/ lexer'.state = "thrown"
  /\ lexer'.state = "thrown" => lexer'.tokens = lexer.tokens
  /\ lexer.state \in {"returned", "thrown"} => lexer' = lexer
  /\ lexer'.input = lexer.input

\* C14: tokenization terminates.  Every turn of the scanning loop moves the
\* position forward by at least one character or throws, the position
\* never passes the end of the input, and the loop can always take a turn
\* until it returns or throws; it returns the token sequence of the whole
\* input, or throws at the first invalid character or unterminated string
\* with the tokens read before it, after which nothing more happens.
C14_TokenizationTerminates == [](LexerOutcome) /\ [][LexerStep]_vars

\* a string with no closing quote has been met after two tokens
C14_Witness ==
  /\ lexer.state = "thrown"
  /\ Len(lexer.tokens) = 2
  /\ lexer.error[1] = "Unterminated string at position"
  /\ lexer.position = Len(lexer.input)

\* C15: a SELECT that the parser accepts has as its column list either the
\* single wildcard or identifiers only.
C15_ColumnListIsWildcardOrIdentifiers ==
  (parser.state = "returned" /\ parser.ast.type = "SELECT")
    => \/ parser.ast.columns = <<"*">>
       \/ "*" \notin Range(parser.ast.columns)

\* C16: when parse returns an AST the parser has read every token: its
\* position is the number of tokens.
C16_EveryTokenIsConsumed ==
  parser.state = "returned" => parser.position = Len(parser.tokens)

\* C17: the database always has the tables it started with, and a run
\* changes no table but the one an INSERT, UPDATE or DELETE names.
C17_OnlyTheNamedTableChanges ==
  /\ DOMAIN mockDatabase = Range(TableOrder)
  /\ lastOp = "run" =>
       \A t \in DOMAIN dbAtCall :
         mockDatabase[t] # dbAtCall[t]
           => /\ Ast.ok
              /\ Ast.val.type \in {"INSERT", "UPDATE", "DELETE"}
              /\ Ast.val.table = t

\* an INSERT has grown orders while users, changed by an earlier run, and
\* products are as that run found them
C17_Witness ==
  /\ RanStatement("INSERT") /\ Succeeded
  /\ Ast.val.table = "orders"
  /\ Len(mockDatabase.orders) > Len(dbAtCall.orders)
  /\ mockDatabase.users = dbAtCall.users
  /\ Len(mockDatabase.users) < 2
  /\ mockDatabase.products = dbAtCall.products

====
